---- MODULE Spec2Model ----
(***************************************************************************)
(* Render-job orchestration of the Chatooly render service: the in-memory  *)
(* job queue (lib/jobQueue.js), the POST /render route that feeds it, the  *)
(* SIGTERM handler that drains it, and the frame capture loop of the       *)
(* Puppeteer renderer (workers/renderer.js).                               *)
(*                                                                         *)
(* Node runs every handler to its next `await` without interleaving, so    *)
(* one action of the model is one such run: from the resolution (or        *)
(* rejection) of the promise a job waits on to the next promise it waits   *)
(* on, every synchronous call in between included.                         *)
(*                                                                         *)
(* Next to the job store the model keeps what a render call holds outside  *)
(* of it: the page it opened with the window of that page, the files of    *)
(* its job directory, and the engines the Renderer singleton launched.     *)
(* Which calls may fail in a run is fixed by `faults` before the service   *)
(* starts.  The runs of NextClients add the GET /status and GET /download  *)
(* routes and the cleanup job of the server, the runs of NextStats a       *)
(* caller of getStats.                                                     *)
(*                                                                         *)
(* JavaScript numbers are modelled as exact rationals <<n, d>> with d > 0  *)
(* in lowest terms; a pair with d = 0 is one of the values that are no     *)
(* finite number (null, NaN, Infinity).  For the inputs of the model the   *)
(* doubles the program computes differ from these rationals by rounding    *)
(* only: every product duration * fps is exact, and so is every time that  *)
(* is a multiple of the period it is reduced by, so no comparison and no   *)
(* wrap-around is decided differently.                                     *)
(***************************************************************************)
EXTENDS Integers, Sequences, FiniteSets, TLC

\* ------------------------------------------------------------------ bounds

\* Number of submissions the clients make in one run.
MaxJobs == 3

\* config.rendering.maxFramesPerJob
maxFramesPerJob == 300

\* config.rendering.maxResolution
maxResolution == 4

\* ------------------------------------------------------- JavaScript values

\* null in a field that holds a string or a date.
NULL == "null"
\* null, NaN and Infinity in a field that holds a number.
NullNum == <<-1, 0>>
NaN == <<0, 0>>
Infinity == <<1, 0>>
\* new Date(): the model keeps no clock, only that a date was stored.
Date == "date"

Abs(n) == IF n < 0 THEN -n ELSE n

RECURSIVE GCD(_, _)
GCD(a, b) == IF b = 0 THEN a ELSE GCD(b, a % b)

\* The rational n/d in lowest terms, d # 0.
Rat(n, d) ==
  LET g == GCD(Abs(n), Abs(d))
      s == IF d < 0 THEN -1 ELSE 1
  IN <<(s * n) \div g, (s * d) \div g>>

R(i) == <<i, 1>>
IsNum(x) == x[2] # 0
RMul(a, b) == Rat(a[1] * b[1], a[2] * b[2])
RSub(a, b) == Rat(a[1] * b[2] - b[1] * a[2], a[2] * b[2])
\* a / b: division by zero gives NaN (0/0) or Infinity, as in JavaScript.
RDiv(a, b) ==
  IF b[1] = 0 THEN (IF a[1] = 0 THEN NaN ELSE Infinity)
  ELSE Rat(a[1] * b[2], a[2] * b[1])
RLess(a, b) == a[1] * b[2] < b[1] * a[2]
Floor(a) == a[1] \div a[2]
\* Math.ceil
Ceil(a) == -((-a[1]) \div a[2])
\* Math.round: to the nearest integer, halves up.
Round(a) == (2 * a[1] + a[2]) \div (2 * a[2])
\* a % p for a >= 0 and p > 0; NaN for p = 0.
RMod(a, p) ==
  IF p[1] = 0 THEN NaN ELSE RSub(a, RMul(p, R(Floor(RDiv(a, p)))))

\* JavaScript truthiness of a number or null: null, 0 and NaN are falsy.
Truthy(x) == IsNum(x) /\ x[1] # 0

\* ------------------------------------------------------------------ inputs

\* A request body of POST /render, after the route's defaults: resolution 2,
\* the archive format, no animation code.
Body(html, duration, fps, animationSpeed, perfectLoop, naturalPeriod) ==
  [html |-> html, duration |-> duration, fps |-> fps, resolution |-> R(2),
   animationCode |-> "", exportFormat |-> "zip",
   animationSpeed |-> animationSpeed, perfectLoop |-> perfectLoop,
   naturalPeriod |-> naturalPeriod]

\* The request of a two-frame animation with these three fields set.
Request(resolution, exportFormat, animationCode) ==
  [Body(TRUE, R(1), R(2), R(1), FALSE, NullNum) EXCEPT
     !.resolution = resolution, !.exportFormat = exportFormat,
     !.animationCode = animationCode]

\* Requests of the dispatcher runs: a one-frame animation, and a request
\* without content.
QueueBodies ==
  { Body(TRUE, R(1), R(1), R(1), FALSE, NullNum),
    Body(FALSE, R(1), R(1), R(1), FALSE, NullNum) }

\* Requests of the pair runs: two or three frames, with and without the
\* perfect loop and a speed.
PairBodies ==
  { Body(TRUE, R(1), R(2), R(1), FALSE, NullNum),
    Body(TRUE, Rat(3, 2), R(2), R(2), TRUE, R(1)),
    Body(TRUE, Rat(3, 2), R(2), R(0), TRUE, NullNum) }

\* Requests of the frame-time runs: every combination of these fields.
TimeDurations == { R(0), R(1), Rat(3, 2), R(2), R(3) }
TimeFps == { R(1), R(2), R(10), R(15) }
TimeSpeeds == { R(0), R(1), R(2), Rat(1, 2) }
TimePeriods == { NullNum, R(0), R(2), Rat(1, 2) }
TimeBodies ==
  { Body(TRUE, d, f, s, l, p) :
      d \in TimeDurations, f \in TimeFps, s \in TimeSpeeds,
      l \in BOOLEAN, p \in TimePeriods }

\* Requests of the frame-limit runs: a perfect loop of 302 frames whose
\* natural period holds 4.
LongBodies == { Body(TRUE, R(151), R(2), R(1), TRUE, R(2)) }

\* Requests of the client runs: an archive and a video of two frames, and
\* one request for each check of the route to refuse.
ClientBodies ==
  { Request(R(2), "zip", ""),
    Request(R(2), "mov", ""),
    Request(R(2), "mp4", ""),
    Request(R(8), "zip", ""),
    Body(TRUE, R(151), R(2), R(1), FALSE, NullNum),
    Body(FALSE, R(1), R(2), R(1), FALSE, NullNum) }

\* Requests of the time-hook runs: one for each animation code.
HookBodies ==
  { Request(R(2), f, c) :
      f \in {"zip", "webm"}, c \in {"", "loop", "once", "throw", "update"} }

\* ------------------------------------------------------------------- state

VARIABLES
  jobs,         \* JobQueue.jobs: job id -> job record (ids are 1, 2, ...)
  queue,        \* JobQueue.queue: the admission list of job ids
  activeJobs,   \* JobQueue.activeJobs
  maxConcurrent,  \* JobQueue.maxConcurrent
  pc,           \* per job: the await its render call is suspended at
  frame,        \* per job: the loop variable `frame` of the capture loop
  times,        \* per job: the times passed to window.setAnimationTime
  error,        \* per job: the error its render call is about to rethrow
  startLog,     \* the job ids in the order processQueue handed them off
  response,     \* the last response sent, with the route and the request
  exited,       \* process.exit was called
  page,         \* per job: the page render opened for it
  jobDir,       \* per job: what the job directory holds on disk
  cleanupErrors,  \* the jobs for which 'Cleanup error:' was logged
  window,       \* per job: the window object of its page
  browser,      \* Renderer.browser: 0 for null, or the engine it references
  engines,      \* the engines launched so far: TRUE while connected
  foundDead,    \* how often getBrowser found its engine disconnected
  initialized,  \* VideoEncoder.initialized
  bodies,       \* the requests the clients may send
  limit,        \* the number of requests the clients send
  faults        \* the calls that may fail in this run

\* What the environment fixes before the service starts.
config == <<bodies, limit, maxConcurrent, faults>>

\* What a render call holds outside the job record.
session == <<page, jobDir, cleanupErrors, window>>

\* The Renderer and VideoEncoder singletons and the engines launched.
engine == <<browser, engines, foundDead, initialized>>

vars == <<jobs, queue, activeJobs, pc, frame, times, error, startLog,
          response, exited, session, engine, config>>

Ids == DOMAIN jobs

\* ----------------------------------------------------------------- JobQueue

\* Object.assign(job, updates)
Assign(job, updates) ==
  [f \in DOMAIN job \cup DOMAIN updates |->
     IF f \in DOMAIN updates THEN updates[f] ELSE job[f]]

\* Math.round((currentFrame / totalFrames) * 100)
Progress(currentFrame, totalFrames) ==
  LET q == RDiv(R(currentFrame), totalFrames)
  IN IF IsNum(q) THEN R(Round(RMul(q, R(100)))) ELSE NaN

\* updateJob without the new progress.
updateJobStale(js, jobId, updates) ==
  IF jobId \in DOMAIN js
  THEN [js EXCEPT ![jobId] = Assign(js[jobId], updates)]
  ELSE js

\* updateJob storing the updates as a new record under an id the store
\* does not hold.
updateJobUpsert(js, jobId, updates) ==
  IF jobId \in DOMAIN js
  THEN LET job == Assign(js[jobId], updates)
       IN [js EXCEPT ![jobId] =
             IF "currentFrame" \in DOMAIN updates
             THEN [job EXCEPT !.progress =
                     Progress(updates.currentFrame, job.totalFrames)]
             ELSE job]
  ELSE [k \in DOMAIN js \cup {jobId} |->
          IF k = jobId THEN updates ELSE js[k]]

updateJob(js, jobId, updates) ==
  IF jobId \in DOMAIN js
  THEN LET job == Assign(js[jobId], updates)
       IN [js EXCEPT ![jobId] =
             IF "currentFrame" \in DOMAIN updates
             THEN [job EXCEPT !.progress =
                     Progress(updates.currentFrame, job.totalFrames)]
             ELSE job]
  ELSE js

\* The part of the state processQueue reads and writes.
QState == [jobs |-> jobs, queue |-> queue, activeJobs |-> activeJobs,
           pc |-> pc, startLog |-> startLog]

\* processQueue with the limit test off by one (> for >=).
RECURSIVE processQueueOver(_)
processQueueOver(st) ==
  IF st.activeJobs > maxConcurrent \/ Len(st.queue) = 0
  THEN st
  ELSE LET jobId == Head(st.queue)
           st1 == [st EXCEPT !.queue = Tail(st.queue)]
       IN IF jobId \notin DOMAIN st1.jobs \/ st1.jobs[jobId].status # "queued"
          THEN processQueueOver(st1)
          ELSE [st1 EXCEPT
                  !.activeJobs = @ + 1,
                  !.jobs = updateJob(@, jobId,
                             [status |-> "processing", startedAt |-> Date]),
                  !.pc = [@ EXCEPT ![jobId] = "mkdir"],
                  !.startLog = Append(@, jobId)]

\* processQueue taking the newest entry (queue.pop() for queue.shift()).
RECURSIVE processQueuePop(_)
processQueuePop(st) ==
  IF st.activeJobs >= maxConcurrent \/ Len(st.queue) = 0
  THEN st
  ELSE LET jobId == st.queue[Len(st.queue)]
           st1 == [st EXCEPT !.queue = SubSeq(st.queue, 1, Len(st.queue) - 1)]
       IN IF jobId \notin DOMAIN st1.jobs \/ st1.jobs[jobId].status # "queued"
          THEN processQueuePop(st1)
          ELSE [st1 EXCEPT
                  !.activeJobs = @ + 1,
                  !.jobs = updateJob(@, jobId,
                             [status |-> "processing", startedAt |-> Date]),
                  !.pc = [@ EXCEPT ![jobId] = "mkdir"],
                  !.startLog = Append(@, jobId)]

\* processQueue up to its `await renderer.render(job)`: render runs
\* synchronously to its first await, the creation of the job directory.
RECURSIVE processQueue(_)
processQueue(st) ==
  IF st.activeJobs >= maxConcurrent \/ Len(st.queue) = 0
  THEN st
  ELSE LET jobId == Head(st.queue)
           st1 == [st EXCEPT !.queue = Tail(st.queue)]
       IN IF jobId \notin DOMAIN st1.jobs \/ st1.jobs[jobId].status # "queued"
          THEN processQueue(st1)
          ELSE [st1 EXCEPT
                  !.activeJobs = @ + 1,
                  !.jobs = updateJob(@, jobId,
                             [status |-> "processing", startedAt |-> Date]),
                  !.pc = [@ EXCEPT ![jobId] = "mkdir"],
                  !.startLog = Append(@, jobId)]

\* The totalFrames createJob stores.
createJobTotalFrames(data) == RMul(data.duration, data.fps)

createJob(st, data) ==
  LET jobId == Len(st.jobs) + 1
      job == [id |-> jobId, status |-> "queued", progress |-> R(0),
              currentFrame |-> 0,
              totalFrames |-> createJobTotalFrames(data),
              data |-> data, createdAt |-> Date, startedAt |-> NULL,
              completedAt |-> NULL, error |-> NULL, downloadUrl |-> NULL,
              fileSize |-> NULL]
  IN processQueue([st EXCEPT
       !.jobs = Append(@, job),
       !.queue = Append(@, jobId),
       !.pc = Append(@, "idle")])

\* cleanup(): cancels what is in the admission list and empties it.
RECURSIVE cancelAll(_, _)
cancelAll(js, q) ==
  IF q = <<>> THEN js
  ELSE cancelAll(updateJob(js, Head(q),
                   [status |-> "cancelled", error |-> "Server shutting down"]),
                 Tail(q))

\* cleanup cancelling every job of the store that has not ended.
cleanupStore(st) ==
  [st EXCEPT
     !.jobs = cancelAll(@, SelectSeq([i \in 1..Len(st.jobs) |-> i],
                LAMBDA i : st.jobs[i].status \in {"queued", "processing"})),
     !.queue = <<>>]

\* cleanup without the reset of the admission list.
cleanupKeepQueue(st) == [st EXCEPT !.jobs = cancelAll(@, st.queue)]

cleanup(st) == [st EXCEPT !.jobs = cancelAll(@, st.queue), !.queue = <<>>]

\* jobs.filter(j => j.status === status).length
count(js, status) ==
  Cardinality({i \in DOMAIN js : js[i].status = status})

\* getStats(): the snapshot it returns.
getStats(st) ==
  [total |-> Len(st.jobs),
   queued |-> count(st.jobs, "queued"),
   processing |-> count(st.jobs, "processing"),
   completed |-> count(st.jobs, "completed"),
   failed |-> count(st.jobs, "failed"),
   activeJobs |-> st.activeJobs,
   queueLength |-> Len(st.queue)]

\* Writes a queue state back to the variables.
Store(st) ==
  /\ jobs' = st.jobs
  /\ queue' = st.queue
  /\ activeJobs' = st.activeJobs
  /\ pc' = st.pc
  /\ startLog' = st.startLog

\* ------------------------------------------------------------- POST /render

\* An archive without members.
NoArchive == [images |-> {}, metadata |-> <<>>]

\* A job directory that does not exist: frames counts the screenshots
\* written, names is the listing of the frames directory, output and file
\* are the artifact, and archive is what output.zip holds.
NoFiles == [exists |-> FALSE, frames |-> 0, names |-> {}, output |-> "none",
            file |-> <<>>, archive |-> NoArchive]

\* The route's frame count, used for the limit check only.
routeTotalFrames(body) ==
  LET effectiveDuration ==
        IF body.perfectLoop /\ Truthy(body.naturalPeriod)
        THEN body.naturalPeriod ELSE body.duration
  IN Ceil(RMul(effectiveDuration, body.fps))

\* videoEncoder.getSupportedFormats()
getSupportedFormats == {"mov", "webm", "gif"}

\* packager.getAvailableFormats()
getAvailableFormats == {"zip"} \cup getSupportedFormats

\* The error of the first check of the route that the body fails, or NULL.
validationError(body) ==
  IF ~body.html THEN "HTML content is required"
  ELSE IF routeTotalFrames(body) > maxFramesPerJob
  THEN "Too many frames requested"
  ELSE IF RLess(R(maxResolution), body.resolution)
  THEN "Resolution too high"
  ELSE IF body.exportFormat \notin getAvailableFormats
  THEN "Invalid export format"
  ELSE NULL

Rejected(body) == validationError(body) # NULL

\* The window of a page before the animation controller is injected:
\* rafCallbacks is the array of that name, updateAnimation says whether the
\* function is defined, evals counts the evaluations of the animation code,
\* calls lists the calls of callbacks with their argument, and errors counts
\* the errors the page caught and wrote to its console.
NoWindow == [rafCallbacks |-> <<>>, updateAnimation |-> FALSE, evals |-> 0,
             calls |-> <<>>, errors |-> 0]

\* POST /render creating the job before it validates the body.
PostRenderCreateFirst(body) ==
  /\ ~exited
  /\ Len(jobs) < limit
  /\ LET st == createJob(QState, body)
         job == st.jobs[Len(st.jobs)]
     IN /\ Store(st)
        /\ frame' = Append(frame, 0)
        /\ times' = Append(times, <<>>)
        /\ error' = Append(error, NULL)
        /\ page' = Append(page, "none")
        /\ jobDir' = Append(jobDir, NoFiles)
        /\ window' = Append(window, NoWindow)
        /\ cleanupErrors' = cleanupErrors
        /\ response' =
             IF Rejected(body)
             THEN [route |-> "render", request |-> body, status |-> 400,
                   error |-> validationError(body)]
             ELSE [route |-> "render", request |-> body, status |-> 200,
                   jobId |-> job.id, jobStatus |-> job.status,
                   totalFrames |-> job.totalFrames]
  /\ UNCHANGED <<exited, engine, config>>

PostRender(body) ==
  /\ ~exited
  /\ Len(jobs) < limit
  /\ IF Rejected(body)
     THEN /\ response' = [route |-> "render", request |-> body,
                           status |-> 400, error |-> validationError(body)]
          /\ UNCHANGED <<jobs, queue, activeJobs, pc, startLog, frame, times,
                         error, session>>
     ELSE LET st == createJob(QState, body)
              job == st.jobs[Len(st.jobs)]
          IN /\ Store(st)
             /\ frame' = Append(frame, 0)
             /\ times' = Append(times, <<>>)
             /\ error' = Append(error, NULL)
             /\ page' = Append(page, "none")
             /\ jobDir' = Append(jobDir, NoFiles)
             /\ window' = Append(window, NoWindow)
             /\ cleanupErrors' = cleanupErrors
             /\ response' = [route |-> "render", request |-> body,
                             status |-> 200, jobId |-> job.id,
                             jobStatus |-> job.status,
                             totalFrames |-> job.totalFrames]
  /\ UNCHANGED <<exited, engine, config>>

\* ----------------------------------------------------------------- renderer

\* The local totalFrames of render: one less for a perfect loop.
captureFrames(job) ==
  IF job.data.perfectLoop THEN RSub(job.totalFrames, R(1)) ELSE job.totalFrames

\* currentTime counting the frames from a counter the active jobs share.
currentTimeShared(job, f) ==
  LET raw == RDiv(R(f + activeJobs - 1), job.data.fps)
      speed == IF Truthy(job.data.animationSpeed)
               THEN job.data.animationSpeed ELSE R(1)
  IN IF ~IsNum(raw) THEN raw
     ELSE IF job.data.perfectLoop
     THEN LET naturalPeriod ==
                IF Truthy(job.data.naturalPeriod)
                THEN job.data.naturalPeriod ELSE job.data.duration
          IN RMod(RMul(raw, speed), naturalPeriod)
     ELSE RMul(raw, speed)

\* The time render passes to window.setAnimationTime for one frame.
currentTime(job, f) ==
  LET raw == RDiv(R(f), job.data.fps)
      speed == IF Truthy(job.data.animationSpeed)
               THEN job.data.animationSpeed ELSE R(1)
  IN IF ~IsNum(raw) THEN raw
     ELSE IF job.data.perfectLoop
     THEN LET naturalPeriod ==
                IF Truthy(job.data.naturalPeriod)
                THEN job.data.naturalPeriod ELSE job.data.duration
          IN RMod(RMul(raw, speed), naturalPeriod)
     ELSE RMul(raw, speed)

\* Job j's render call is suspended at await p.
At(j, p) == ~exited /\ j \in Ids /\ pc[j] = p

\* One await resolves and render goes on to the next one.
Resume(j, from, to) ==
  /\ At(j, from)
  /\ pc' = [pc EXCEPT ![j] = to]
  /\ UNCHANGED <<jobs, queue, activeJobs, frame, times, error, startLog,
                 response, exited, session, engine, config>>

\* The head of the capture loop with the loop variable at f: the time of
\* frame f is sent to the page, or the loop ends and the page is closed.
LoopHead(j, js, f) ==
  /\ frame' = [frame EXCEPT ![j] = f]
  /\ IF RLess(R(f), captureFrames(js[j]))
     THEN /\ times' = [times EXCEPT ![j] = Append(@, currentTime(js[j], f))]
          /\ pc' = [pc EXCEPT ![j] = "setTime"]
     ELSE /\ times' = times
          /\ pc' = [pc EXCEPT ![j] = "close"]

\* this.browser && this.browser.isConnected()
Connected == browser # 0 /\ engines[browser]

\* fs.mkdir of the job directory and of its frames directory; getBrowser is
\* called and returns this.browser at once, or goes on to launch an engine.
MkdirDone(j) ==
  /\ At(j, "mkdir")
  /\ jobDir' = [jobDir EXCEPT ![j] = [@ EXCEPT !.exists = TRUE]]
  /\ IF Connected
     THEN /\ pc' = [pc EXCEPT ![j] = "newPage"]
          /\ foundDead' = foundDead
     ELSE /\ pc' = [pc EXCEPT ![j] = "getBrowser"]
          /\ foundDead' = IF browser # 0 THEN foundDead + 1 ELSE foundDead
  /\ UNCHANGED <<jobs, queue, activeJobs, frame, times, error, startLog,
                 response, exited, page, cleanupErrors, window, browser,
                 engines, initialized, config>>

\* puppeteer.launch in getBrowser: the engine is stored in this.browser and
\* returned; browser.newPage() is called.
GetBrowserDone(j) ==
  /\ At(j, "getBrowser")
  /\ engines' = Append(engines, TRUE)
  /\ browser' = Len(engines) + 1
  /\ pc' = [pc EXCEPT ![j] = "newPage"]
  /\ UNCHANGED <<jobs, queue, activeJobs, frame, times, error, startLog,
                 response, exited, session, foundDead, initialized, config>>

\* browser.newPage()
NewPageDone(j) ==
  /\ At(j, "newPage")
  /\ page' = [page EXCEPT ![j] = "open"]
  /\ pc' = [pc EXCEPT ![j] = "setContent"]
  /\ UNCHANGED <<jobs, queue, activeJobs, frame, times, error, startLog,
                 response, exited, jobDir, cleanupErrors, window, engine,
                 config>>

\* page.setViewport, page.setContent and the 500 ms wait
SetContentDone(j) == Resume(j, "setContent", "inject")

\* The animation codes of the requests: "loop" registers the callback tick,
\* which draws and registers itself again; "once" registers the callback
\* bad, which throws; "throw" throws before it registers anything; "update"
\* defines window.updateAnimation; "" is no code.
registers(animationCode) ==
  IF animationCode = "loop" THEN <<"tick">>
  ELSE IF animationCode = "once" THEN <<"bad">>
  ELSE <<>>

\* One call of a callback with the time in milliseconds: what it registers
\* goes to the new array, what it throws is caught and logged.
invoke(w, cb, ms) ==
  [w EXCEPT
     !.calls = Append(@, <<cb, ms>>),
     !.rafCallbacks = IF cb = "tick" THEN Append(@, "tick") ELSE @,
     !.errors = IF cb = "bad" THEN @ + 1 ELSE @]

\* callbacks.forEach
RECURSIVE forEach(_, _, _)
forEach(w, callbacks, ms) ==
  IF callbacks = <<>> THEN w
  ELSE forEach(invoke(w, Head(callbacks), ms), Tail(callbacks), ms)

\* time * 1000
Milliseconds(time) == IF IsNum(time) THEN RMul(time, R(1000)) ELSE time

\* window.setAnimationTime calling the callbacks without emptying the array.
setAnimationTimeKeep(w, time) ==
  LET w1 == forEach(w, w.rafCallbacks, Milliseconds(time))
  IN IF w1.updateAnimation
     THEN [w1 EXCEPT !.calls = Append(@, <<"updateAnimation", time>>)]
     ELSE w1

\* window.setAnimationTime(time): the callbacks registered so far are
\* called, each once, then window.updateAnimation if it is defined.
setAnimationTime(w, time) ==
  LET callbacks == w.rafCallbacks
      w1 == forEach([w EXCEPT !.rafCallbacks = <<>>], callbacks,
                    Milliseconds(time))
  IN IF w1.updateAnimation
     THEN [w1 EXCEPT !.calls = Append(@, <<"updateAnimation", time>>)]
     ELSE w1

\* The function page.evaluate runs in the page to install the controller:
\* requestAnimationFrame is replaced and the animation code evaluated inside
\* a try block.
injectController(w, animationCode) ==
  IF animationCode = ""
  THEN [w EXCEPT !.rafCallbacks = <<>>]
  ELSE [w EXCEPT
          !.rafCallbacks = registers(animationCode),
          !.updateAnimation = (animationCode = "update"),
          !.evals = @ + 1,
          !.errors = IF animationCode = "throw" THEN @ + 1 ELSE @]

\* page.evaluate of the animation controller; the capture loop starts.
InjectDone(j) ==
  /\ At(j, "inject")
  /\ window' = [window EXCEPT
                  ![j] = injectController(@, jobs[j].data.animationCode)]
  /\ LoopHead(j, jobs, 0)
  /\ UNCHANGED <<jobs, queue, activeJobs, error, startLog, response, exited,
                 page, jobDir, cleanupErrors, engine, config>>

\* page.evaluate of setAnimationTime has run in the page and returned; the
\* 50 ms timer is set.
SetTimeDone(j) ==
  /\ At(j, "setTime")
  /\ window' = [window EXCEPT
                  ![j] = setAnimationTime(@, times[j][Len(times[j])])]
  /\ pc' = [pc EXCEPT ![j] = "settle"]
  /\ UNCHANGED <<jobs, queue, activeJobs, frame, times, error, startLog,
                 response, exited, page, jobDir, cleanupErrors, engine,
                 config>>

\* The 50 ms timer; page.screenshot is called.
SettleDone(j) == Resume(j, "settle", "screenshot")

\* String(n) of a natural number, as the sequence of its decimal digits.
RECURSIVE String(_)
String(n) == IF n < 10 THEN <<n>> ELSE Append(String(n \div 10), n % 10)

\* s.padStart(targetLength, padString) for a one-character padString.
padStart(s, targetLength, padString) ==
  IF Len(s) >= targetLength THEN s
  ELSE [i \in 1..(targetLength - Len(s)) |-> padString] \o s

\* The frame file the screenshot of this frame is written to, as
\* <<base name, number, extension>>.
framePath(f) == <<"frame_", padStart(String(f), 4, 0), "png">>

\* ScreenshotDone storing the index of the frame, not the count of frames.
ScreenshotDoneIndex(j) ==
  /\ At(j, "screenshot")
  /\ jobDir' = [jobDir EXCEPT
                  ![j] = [@ EXCEPT !.frames = @ + 1,
                                   !.names = @ \cup {framePath(frame[j])}]]
  /\ LET js == updateJob(jobs, j, [currentFrame |-> frame[j]])
     IN /\ jobs' = js
        /\ LoopHead(j, js, frame[j] + 1)
  /\ UNCHANGED <<queue, activeJobs, error, startLog, response, exited,
                 page, cleanupErrors, window, engine, config>>

\* ScreenshotDone storing the progress in the job that was handed off last,
\* as a renderer that kept its job in a field of the singleton would.
ScreenshotDoneLast(j) ==
  /\ At(j, "screenshot")
  /\ jobDir' = [jobDir EXCEPT
                  ![j] = [@ EXCEPT !.frames = @ + 1,
                                   !.names = @ \cup {framePath(frame[j])}]]
  /\ LET js == updateJob(jobs, startLog[Len(startLog)],
                         [currentFrame |-> frame[j] + 1])
     IN /\ jobs' = js
        /\ LoopHead(j, js, frame[j] + 1)
  /\ UNCHANGED <<queue, activeJobs, error, startLog, response, exited,
                 page, cleanupErrors, window, engine, config>>

\* page.screenshot has written the frame file; the progress is stored and
\* the loop goes round.
ScreenshotDone(j) ==
  /\ At(j, "screenshot")
  /\ jobDir' = [jobDir EXCEPT
                  ![j] = [@ EXCEPT !.frames = @ + 1,
                                   !.names = @ \cup {framePath(frame[j])}]]
  /\ LET js == updateJob(jobs, j, [currentFrame |-> frame[j] + 1])
     IN /\ jobs' = js
        /\ LoopHead(j, js, frame[j] + 1)
  /\ UNCHANGED <<queue, activeJobs, error, startLog, response, exited,
                 page, cleanupErrors, window, engine, config>>

\* page.close(); packager.createZip is called.
PageCloseDone(j) ==
  /\ At(j, "close")
  /\ page' = [page EXCEPT ![j] = "closed"]
  /\ pc' = [pc EXCEPT ![j] = "package"]
  /\ UNCHANGED <<jobs, queue, activeJobs, frame, times, error, startLog,
                 response, exited, jobDir, cleanupErrors, window, engine,
                 config>>

\* The name of the file the packager writes into the job directory, as
\* <<base name, extension>>: output.zip, or the job id with the format as
\* its extension.
outputPath(job) ==
  IF job.data.exportFormat = "zip" THEN <<"output", "zip">>
  ELSE <<"jobId", job.data.exportFormat>>

\* archive.glob('*.png') in the frames directory
glob(names) == {n \in names : n[3] = "png"}

\* What createZip puts into output.zip: the files of the frames directory
\* and metadata.json with the length of the listing of that directory.
createZip(dir) ==
  [images |-> glob(dir.names),
   metadata |-> <<[frameCount |-> Cardinality(dir.names),
                   format |-> "PNG Sequence"]>>]

\* The packager returning without having written the artifact.
PackageDoneNothing(j) ==
  /\ At(j, "package")
  /\ initialized' = (initialized \/ jobs[j].data.exportFormat # "zip")
  /\ pc' = [pc EXCEPT ![j] = "stat"]
  /\ UNCHANGED <<jobs, queue, activeJobs, frame, times, error, startLog,
                 response, exited, session, browser, engines, foundDead,
                 config>>

\* packager.createZip or packager.createVideo has written the artifact into
\* the job directory; fs.stat of it is called. createVideo has initialized
\* the encoder on its way: its own awaits, the probe of FFmpeg and the
\* encoding, are taken as the one call render waits for.
PackageDone(j) ==
  /\ At(j, "package")
  /\ jobDir' = [jobDir EXCEPT
                  ![j] = [@ EXCEPT !.output = "complete",
                                   !.file = outputPath(jobs[j]),
                                   !.archive =
                                     IF jobs[j].data.exportFormat = "zip"
                                     THEN createZip(jobDir[j]) ELSE @]]
  /\ initialized' = (initialized \/ jobs[j].data.exportFormat # "zip")
  /\ pc' = [pc EXCEPT ![j] = "stat"]
  /\ UNCHANGED <<jobs, queue, activeJobs, frame, times, error, startLog,
                 response, exited, page, cleanupErrors, window, browser,
                 engines, foundDead, config>>

\* The end of a processQueue call without the new call of processQueue.
settleOnly(st, j, outcome) ==
  [st EXCEPT
    !.jobs = updateJob(@, j, outcome),
    !.activeJobs = @ - 1,
    !.pc = [@ EXCEPT ![j] = "done"]]

\* The end of a processQueue call that frees the slot in the catch block
\* and again in the finally block.
settleTwice(st, j, outcome) ==
  processQueue([st EXCEPT
    !.jobs = updateJob(@, j, outcome),
    !.activeJobs = IF outcome.status = "failed" THEN @ - 2 ELSE @ - 1,
    !.pc = [@ EXCEPT ![j] = "done"]])

\* The end of job j's processQueue call: the outcome is stored, the slot is
\* freed and processQueue is called again.
settle(st, j, outcome) ==
  processQueue([st EXCEPT
    !.jobs = updateJob(@, j, outcome),
    !.activeJobs = @ - 1,
    !.pc = [@ EXCEPT ![j] = "done"]])

\* StatDone without the update that stores the size.
StatDoneNoSize(j) ==
  /\ At(j, "stat")
  /\ Store(settle(QState, j,
       [status |-> "completed", completedAt |-> Date,
        progress |-> R(100), downloadUrl |-> "/download"]))
  /\ UNCHANGED <<frame, times, error, response, exited, session, engine,
                 config>>

\* fs.stat; render stores the size and returns, processQueue completes the job.
StatDone(j) ==
  /\ At(j, "stat")
  /\ LET js == updateJob(jobs, j,
                 [fileSize |-> "MB",
                  exportFormat |-> jobs[j].data.exportFormat])
     IN Store(settle([QState EXCEPT !.jobs = js], j,
                [status |-> "completed", completedAt |-> Date,
                 progress |-> R(100), downloadUrl |-> "/download"]))
  /\ UNCHANGED <<frame, times, error, response, exited, session, engine,
                 config>>

\* The awaits of render that can reject (a timer cannot).
Rejectable == {"mkdir", "getBrowser", "newPage", "setContent", "inject",
               "setTime", "screenshot", "close", "package", "stat"}

\* error.message of a rejection: the model keeps which function threw, and
\* for puppeteer which method of the browser or the page.
message(p) ==
  IF p \in {"mkdir", "stat"} THEN "fs error"
  ELSE IF p = "package" THEN "archiver error"
  ELSE IF p = "getBrowser" THEN "launch error"
  ELSE IF p \in {"inject", "setTime"} THEN "evaluate error"
  ELSE p \o " error"

\* The error VideoEncoder.initialize throws when its probe of FFmpeg fails.
FFmpegRequired ==
  "FFmpeg is required for video export. Please install FFmpeg."

\* The errors the call job j waits for may reject with in this run. A call
\* of createVideo fails in initialize, unless the encoder was initialized
\* before, or in the encoding.
errors(j) ==
  IF pc[j] = "package" /\ jobs[j].data.exportFormat # "zip"
  THEN (IF "initialize" \in faults /\ ~initialized
        THEN {FFmpegRequired} ELSE {})
       \cup (IF "package" \in faults THEN {"Video encoding failed"} ELSE {})
  ELSE IF pc[j] \in Rejectable \cap faults THEN {message(pc[j])}
  ELSE {}

\* What the rejected call may leave behind: the first mkdir may have made
\* the job directory, createZip may have begun output.zip, and a page whose
\* close was rejected may be gone all the same.
Leaves(j, p) ==
  /\ jobDir' \in
       IF p = "mkdir"
       THEN {[jobDir EXCEPT ![j] = [@ EXCEPT !.exists = e]] : e \in BOOLEAN}
       ELSE IF p = "package" /\ error'[j] # FFmpegRequired
       THEN {jobDir,
             [jobDir EXCEPT ![j] = [@ EXCEPT !.output = "partial",
                                             !.file = outputPath(jobs[j])]]}
       ELSE {jobDir}
  /\ page' \in
       IF p = "close"
       THEN {[page EXCEPT ![j] = c] : c \in {"open", "closed"}}
       ELSE {page}

\* An await of render rejects: the catch block removes the job directory.
Reject(j) ==
  /\ ~exited
  /\ j \in Ids
  /\ \E m \in errors(j) :
       /\ error' = [error EXCEPT ![j] = m]
       /\ initialized' = (initialized \/ m = "Video encoding failed")
  /\ Leaves(j, pc[j])
  /\ pc' = [pc EXCEPT ![j] = "rm"]
  /\ UNCHANGED <<jobs, queue, activeJobs, frame, times, startLog, response,
                 exited, cleanupErrors, window, browser, engines, foundDead,
                 config>>

\* A catch block that rethrows without removing the job directory.
RmDoneKeep(j) ==
  /\ At(j, "rm")
  /\ Store(settle(QState, j,
       [status |-> "failed", error |-> error[j], completedAt |-> Date]))
  /\ UNCHANGED <<frame, times, error, response, exited, session, engine,
                 config>>

\* fs.rm has removed the job directory; render rethrows and processQueue
\* fails the job.
RmDone(j) ==
  /\ At(j, "rm")
  /\ jobDir' = [jobDir EXCEPT ![j] = NoFiles]
  /\ Store(settle(QState, j,
       [status |-> "failed", error |-> error[j], completedAt |-> Date]))
  /\ UNCHANGED <<frame, times, error, response, exited, page, cleanupErrors,
                 window, engine, config>>

\* A catch block whose failed removal makes render return.
RmFailReturns(j) ==
  /\ At(j, "rm")
  /\ "rm" \in faults
  /\ cleanupErrors' = cleanupErrors \cup {j}
  /\ Store(settle(QState, j,
       [status |-> "completed", completedAt |-> Date, progress |-> R(100),
        downloadUrl |-> "/download"]))
  /\ UNCHANGED <<frame, times, error, response, exited, page, jobDir, window,
                 engine, config>>

\* fs.rm rejects: the error is logged and dropped, the job directory stays;
\* render rethrows the first error and processQueue fails the job.
RmFail(j) ==
  /\ At(j, "rm")
  /\ "rm" \in faults
  /\ cleanupErrors' = cleanupErrors \cup {j}
  /\ Store(settle(QState, j,
       [status |-> "failed", error |-> error[j], completedAt |-> Date]))
  /\ UNCHANGED <<frame, times, error, response, exited, page, jobDir, window,
                 engine, config>>

\* An engine crashes or is killed: isConnected() is false from now on.
Disconnect(e) ==
  /\ ~exited
  /\ "engine" \in faults
  /\ engines[e]
  /\ engines' = [engines EXCEPT ![e] = FALSE]
  /\ UNCHANGED <<jobs, queue, activeJobs, pc, frame, times, error, startLog,
                 response, exited, session, browser, foundDead, initialized,
                 config>>

\* ----------------------------------------------------- status and download

\* The status response with the locator and the size for every job.
statusResponseAll(jobId) ==
  IF jobId \notin Ids
  THEN [status |-> 404, error |-> "Job not found"]
  ELSE LET job == jobs[jobId]
       IN [status |-> 200, jobId |-> job.id, jobStatus |-> job.status,
           progress |-> job.progress, currentFrame |-> job.currentFrame,
           totalFrames |-> job.totalFrames, startedAt |-> job.startedAt,
           completedAt |-> job.completedAt, error |-> job.error,
           downloadUrl |-> job.downloadUrl, fileSize |-> job.fileSize]

\* The body of the response of GET /status/:jobId.
statusResponse(jobId) ==
  IF jobId \notin Ids
  THEN [status |-> 404, error |-> "Job not found"]
  ELSE LET job == jobs[jobId]
           body == [status |-> 200, jobId |-> job.id, jobStatus |-> job.status,
                    progress |-> job.progress,
                    currentFrame |-> job.currentFrame,
                    totalFrames |-> job.totalFrames,
                    startedAt |-> job.startedAt,
                    completedAt |-> job.completedAt, error |-> job.error]
       IN IF job.status = "completed"
          THEN Assign(body, [downloadUrl |-> job.downloadUrl,
                             fileSize |-> job.fileSize])
          ELSE body

\* GET /status/:jobId
GetStatus(jobId) ==
  /\ ~exited
  /\ response' = Assign(statusResponse(jobId),
                        [route |-> "status", request |-> jobId])
  /\ UNCHANGED <<jobs, queue, activeJobs, pc, frame, times, error, startLog,
                 exited, session, engine, config>>

\* The file GET /download/:jobId looks for in the job directory.
filePath(job) ==
  IF job.data.exportFormat = "zip" THEN <<"output", "zip">>
  ELSE IF job.data.exportFormat \in {"mov", "webm", "gif"}
  THEN <<"jobId", job.data.exportFormat>>
  ELSE <<>>

\* fs.existsSync of a file of the job directory
existsSync(dir, file) == dir.output # "none" /\ dir.file = file

\* The download route without the test of the status.
downloadResponseAny(jobId) ==
  IF jobId \notin Ids
  THEN [status |-> 404, error |-> "Job not found"]
  ELSE IF ~existsSync(jobDir[jobId], filePath(jobs[jobId]))
  THEN [status |-> 404, error |-> "Download file not found"]
  ELSE [status |-> 200, file |-> filePath(jobs[jobId])]

\* The response of GET /download/:jobId up to the start of the stream.
downloadResponse(jobId) ==
  IF jobId \notin Ids
  THEN [status |-> 404, error |-> "Job not found"]
  ELSE IF jobs[jobId].status # "completed"
  THEN [status |-> 400, error |-> "Downloads are only available",
        jobStatus |-> jobs[jobId].status]
  ELSE IF ~existsSync(jobDir[jobId], filePath(jobs[jobId]))
  THEN [status |-> 404, error |-> "Download file not found"]
  ELSE [status |-> 200, file |-> filePath(jobs[jobId])]

\* GET /download/:jobId
GetDownload(jobId) ==
  /\ ~exited
  /\ response' = Assign(downloadResponse(jobId),
                        [route |-> "download", request |-> jobId])
  /\ UNCHANGED <<jobs, queue, activeJobs, pc, frame, times, error, startLog,
                 exited, session, engine, config>>

\* ------------------------------------------------------------------ server

\* The cleanup job finds the directory of job j older than thirty minutes
\* and removes it; the runs take the directory of a job in flight to be
\* younger. The job store stays as it is.
CleanupJob(j) ==
  /\ ~exited
  /\ j \in Ids
  /\ pc[j] = "done"
  /\ jobDir[j].exists
  /\ jobDir' = [jobDir EXCEPT ![j] = NoFiles]
  /\ UNCHANGED <<jobs, queue, activeJobs, pc, frame, times, error, startLog,
                 response, exited, page, cleanupErrors, window, engine,
                 config>>

\* A call of jobQueue.getStats(): the snapshot goes to the caller.
GetStats ==
  /\ ~exited
  /\ response' = [route |-> "stats", status |-> 0, stats |-> getStats(QState)]
  /\ UNCHANGED <<jobs, queue, activeJobs, pc, frame, times, error, startLog,
                 exited, session, engine, config>>

\* A call of jobQueue.cleanup() that the process survives.
Cleanup ==
  /\ ~exited
  /\ Store(cleanup(QState))
  /\ UNCHANGED <<frame, times, error, response, exited, session, engine,
                 config>>

\* The SIGTERM handler: cleanup, then process.exit.
Sigterm ==
  /\ ~exited
  /\ Store(cleanup(QState))
  /\ exited' = TRUE
  /\ UNCHANGED <<frame, times, error, response, session, engine, config>>

\* ----------------------------------------------------------- specification

InitQueue ==
  /\ jobs = <<>>
  /\ queue = <<>>
  /\ activeJobs = 0
  /\ pc = <<>>
  /\ frame = <<>>
  /\ times = <<>>
  /\ error = <<>>
  /\ startLog = <<>>
  /\ response = [route |-> "none", status |-> 0]
  /\ exited = FALSE
  /\ page = <<>>
  /\ jobDir = <<>>
  /\ cleanupErrors = {}
  /\ window = <<>>
  /\ browser = 0
  /\ engines = <<>>
  /\ foundDead = 0
  /\ initialized = FALSE

\* Everything that may fail: an await of render, the probe of FFmpeg, the
\* removal of the job directory in the catch block, and the engine itself.
AllFaults == Rejectable \cup {"initialize", "rm", "engine"}

\* The failures of the dispatcher runs: one kind of failure in each run.
QueueFaults ==
  {{p} : p \in Rejectable} \cup {{"package", "rm"}, {"engine"}}

\* config.rendering.maxConcurrentJobs, which the constructor copies, is set
\* from the environment (MAX_CONCURRENT_JOBS): the runs cover these values.
Concurrency == {1, 2}

\* The dispatcher runs: several short jobs.
Init ==
  /\ InitQueue
  /\ bodies = QueueBodies
  /\ limit = MaxJobs
  /\ maxConcurrent \in Concurrency
  /\ faults \in QueueFaults

\* The pair runs: two jobs, each of any of the pair requests.
InitPair ==
  /\ InitQueue
  /\ bodies = PairBodies
  /\ limit = 2
  /\ maxConcurrent \in Concurrency
  /\ faults = AllFaults

\* The frame-time runs: one job of any of the frame-time requests.
InitTime ==
  /\ InitQueue
  /\ bodies \in { {b} : b \in TimeBodies \cup LongBodies }
  /\ limit = 1
  /\ maxConcurrent \in Concurrency
  /\ faults = AllFaults

\* The client runs: two jobs, polled and downloaded, with the failures of
\* packaging.
InitClients ==
  /\ InitQueue
  /\ bodies = ClientBodies
  /\ limit = 2
  /\ maxConcurrent \in Concurrency
  /\ faults = {"initialize", "package", "rm", "engine"}

\* The time-hook runs: one job of any of the time-hook requests.
InitHook ==
  /\ InitQueue
  /\ bodies \in { {b} : b \in HookBodies }
  /\ limit = 1
  /\ maxConcurrent \in Concurrency
  /\ faults = AllFaults

\* The fair runs: two short jobs.
InitFair ==
  /\ InitQueue
  /\ bodies = QueueBodies
  /\ limit = 2
  /\ maxConcurrent \in Concurrency
  /\ faults = AllFaults

Next ==
  \/ \E body \in bodies : PostRender(body)
  \/ \E j \in Ids : MkdirDone(j)
  \/ \E j \in Ids : GetBrowserDone(j)
  \/ \E j \in Ids : NewPageDone(j)
  \/ \E j \in Ids : SetContentDone(j)
  \/ \E j \in Ids : InjectDone(j)
  \/ \E j \in Ids : SetTimeDone(j)
  \/ \E j \in Ids : SettleDone(j)
  \/ \E j \in Ids : ScreenshotDone(j)
  \/ \E j \in Ids : PageCloseDone(j)
  \/ \E j \in Ids : PackageDone(j)
  \/ \E j \in Ids : StatDone(j)
  \/ \E j \in Ids : Reject(j)
  \/ \E j \in Ids : RmDone(j)
  \/ \E j \in Ids : RmFail(j)
  \/ \E e \in DOMAIN engines : Disconnect(e)
  \/ Cleanup
  \/ Sigterm

\* The service with clients that poll and download, and with the cleanup
\* job of the server.
NextClients ==
  \/ Next
  \/ \E jobId \in 1..(limit + 1) : GetStatus(jobId)
  \/ \E jobId \in 1..(limit + 1) : GetDownload(jobId)
  \/ \E j \in Ids : CleanupJob(j)

\* The service with a monitor that asks for the statistics of the queue.
NextStats ==
  \/ Next
  \/ GetStats

Spec == Init /\ [][Next]_vars

SpecStats == InitFair /\ [][NextStats]_vars

SpecPair == InitPair /\ [][Next]_vars

SpecTime == InitTime /\ [][Next]_vars

SpecClients == InitClients /\ [][NextClients]_vars

SpecHook == InitHook /\ [][Next]_vars

\* Job j's render call has neither returned nor thrown.
Pending(j) == ~exited /\ j \in Ids /\ pc[j] \notin {"idle", "done"}

\* Every call of render returns or throws in the end: no job stays for
\* ever at an await of its render call. Each such await has a step that is
\* enabled as long as the job is at it, so this is weak fairness of the
\* steps of each job.
SpecFair ==
  InitFair /\ [][Next]_vars /\ \A j \in 1..2 : []<>~Pending(j)

\* The event loop runs what is ready: a timer that was set fires. Nothing
\* makes a call into puppeteer, fs or the packager return.
SpecTimers ==
  InitFair /\ [][Next]_vars /\ \A j \in 1..2 : WF_vars(SettleDone(j))

\* ------------------------------------------------------------------ claims

Status(j) == jobs[j].status
WithStatus(s) == {j \in Ids : Status(j) = s}
Range(q) == {q[i] : i \in DOMAIN q}
Min(a, b) == IF a <= b THEN a ELSE b
RLeq(a, b) == a[1] * b[2] <= b[1] * a[2]

\* C1: in every reachable state neither the number of jobs with status
\* processing nor the dispatcher's active counter exceeds maxConcurrent.
C1_ActiveWithinLimit ==
  /\ activeJobs <= maxConcurrent
  /\ Cardinality(WithStatus("processing")) <= maxConcurrent

\* The limit of two is reached while another job waits.
C1_Witness ==
  /\ maxConcurrent = 2
  /\ Cardinality(WithStatus("processing")) = 2
  /\ Len(queue) > 0

\* C2: in every step every job keeps its status or moves along one of
\* queued -> processing, processing -> completed, processing -> failed,
\* queued -> cancelled; completed, failed and cancelled are never left.
StatusEdges ==
  { <<"queued", "processing">>, <<"processing", "completed">>,
    <<"processing", "failed">>, <<"queued", "cancelled">> }

C2_StatusEdges ==
  [][\A j \in Ids :
       \/ jobs'[j].status = jobs[j].status
       \/ <<jobs[j].status, jobs'[j].status>> \in StatusEdges]_vars

\* Every terminal status has been reached by some job.
C2_Witness ==
  /\ WithStatus("completed") # {}
  /\ WithStatus("failed") # {}
  /\ WithStatus("cancelled") # {}

\* C3: frames are captured in index order: the time of a frame is set only
\* when currentFrame equals its index, so at most one frame of a job is in
\* flight, and currentFrame of a job only ever grows, by one per step.
C3_FramesInOrder ==
  /\ [](\A j \in Ids : Len(times[j]) - jobs[j].currentFrame \in {0, 1})
  /\ [][\A j \in Ids :
          /\ jobs'[j].currentFrame \in
               {jobs[j].currentFrame, jobs[j].currentFrame + 1}
          /\ \/ times'[j] = times[j]
             \/ /\ Len(times'[j]) = Len(times[j]) + 1
                /\ jobs'[j].currentFrame = Len(times[j])
                /\ jobs[j].status = "processing"]_vars

\* The time of a third frame has been set after two frames were stored.
C3_Witness ==
  \E j \in Ids :
    /\ pc[j] = "setTime"
    /\ jobs[j].currentFrame = 2
    /\ Len(times[j]) = 3

\* C4 as claimed: the stored and the returned totalFrames are
\* ceil(effectiveDuration * fps), effectiveDuration being naturalPeriod for
\* a perfect loop with a natural period and duration otherwise.
C4_TotalFramesIsCeil ==
  /\ \A j \in Ids : jobs[j].totalFrames = R(routeTotalFrames(jobs[j].data))
  /\ response.status = 200 =>
       response.totalFrames = R(routeTotalFrames(jobs[response.jobId].data))

\* C5 as claimed, for the jobs whose totalFrames is one or more: a
\* completed job has captured totalFrames - 1 frames if it is a perfect
\* loop and totalFrames frames otherwise.
C5_CapturedCount ==
  \A j \in WithStatus("completed") :
    RLeq(R(1), jobs[j].totalFrames) =>
      R(jobs[j].currentFrame) =
        (IF jobs[j].data.perfectLoop
         THEN RSub(jobs[j].totalFrames, R(1)) ELSE jobs[j].totalFrames)

\* The time the claim gives frame i of a job with this data.
claimedTime(data, i) ==
  LET raw == RDiv(R(i), data.fps)
      effectivePeriod ==
        IF Truthy(data.naturalPeriod) THEN data.naturalPeriod
        ELSE data.duration
  IN IF data.perfectLoop
     THEN RMod(RMul(raw, data.animationSpeed), effectivePeriod)
     ELSE RMul(raw, data.animationSpeed)

\* C6 as claimed: the time set for frame i is (i / fps) * speedMultiplier,
\* taken modulo the effective period for a perfect loop.
C6_TimeFormula ==
  \A j \in Ids : \A k \in DOMAIN times[j] :
    times[j][k] = claimedTime(jobs[j].data, k - 1)

IsPrefix(s, t) == Len(s) <= Len(t) /\ SubSeq(t, 1, Len(s)) = s

\* C7: two jobs with the same spec fields are given the same times, frame
\* by frame, and the same number of frames when both complete, whatever
\* else the store holds.
C7_SameSpecSameTimes ==
  \A i, j \in Ids :
    jobs[i].data = jobs[j].data =>
      /\ IsPrefix(times[i], times[j]) \/ IsPrefix(times[j], times[i])
      /\ (Status(i) = "completed" /\ Status(j) = "completed") =>
           /\ times[i] = times[j]
           /\ jobs[i].currentFrame = jobs[j].currentFrame

\* Two jobs of the same spec have both completed with two frames or more,
\* one of them after the other had started.
C7_Witness ==
  \E i, j \in Ids :
    /\ i # j
    /\ jobs[i].data = jobs[j].data
    /\ Status(i) = "completed" /\ Status(j) = "completed"
    /\ Len(times[i]) >= 2

\* C8: whenever a job waits in the admission list every slot is taken; and
\* as long as no job has ended, min(N, maxConcurrent) of the N jobs are
\* processing and the others are queued.
C8_SlotsFilled ==
  /\ Len(queue) > 0 => activeJobs = maxConcurrent
  /\ Ids = WithStatus("queued") \cup WithStatus("processing") =>
       /\ Cardinality(WithStatus("processing")) = Min(Len(jobs), maxConcurrent)
       /\ Cardinality(WithStatus("queued")) =
            Len(jobs) - Min(Len(jobs), maxConcurrent)

\* A job has ended, its slot was taken again and another job still waits.
C8_Witness ==
  /\ WithStatus("completed") \cup WithStatus("failed") # {}
  /\ Len(startLog) >= 2
  /\ activeJobs = maxConcurrent
  /\ Len(queue) > 0

\* C9: jobs enter processing in the order of their creation, and a job
\* that was cancelled never enters processing.
C9_Fifo ==
  /\ \A a, b \in DOMAIN startLog : a < b => startLog[a] < startLog[b]
  /\ \A j \in WithStatus("cancelled") : j \notin Range(startLog)

\* A job that had to wait was handed off after its predecessor, and a
\* later one was cancelled in the list.
C9_Witness ==
  /\ Len(startLog) >= 2
  /\ startLog[2] \in WithStatus("processing")
  /\ WithStatus("cancelled") # {}

\* A step in which a job becomes cancelled.
Drains == \E j \in Ids : Status(j) # "cancelled" /\ jobs'[j].status = "cancelled"

\* What a drain leaves, given the error it stores.
Drained(msg) ==
  /\ \A j \in Ids :
       IF Status(j) = "queued"
       THEN jobs'[j].status = "cancelled" /\ jobs'[j].error = msg
       ELSE jobs'[j] = jobs[j]
  /\ queue' = <<>>
  /\ activeJobs' = activeJobs

\* C10 as claimed: a drain leaves every queued job cancelled with the error
\* "service shutting down", the admission list empty, every other record
\* and the active count unchanged.
C10_DrainClaimed == [][Drains => Drained("service shutting down")]_vars

\* C10: the same, the error being "Server shutting down".
C10_Drain == [][Drains => Drained("Server shutting down")]_vars

\* A drain has cancelled a queued job while another job was processing.
C10_Witness ==
  /\ \E j \in WithStatus("cancelled") : jobs[j].error = "Server shutting down"
  /\ WithStatus("processing") # {}
  /\ queue = <<>>

\* C11: a drain that comes while a job is in flight leaves that job's record
\* and its render call as they are, and the job ends completed if its render
\* returned and failed if it threw, as it does without a drain.
C11_DrainKeepsInFlight ==
  /\ [](\A j \in Ids :
          pc[j] = "done" =>
            Status(j) = IF error[j] = NULL THEN "completed" ELSE "failed")
  /\ [][Drains =>
          \A j \in WithStatus("processing") :
            /\ jobs'[j] = jobs[j]
            /\ pc'[j] = pc[j]
            /\ frame'[j] = frame[j]
            /\ times'[j] = times[j]
            /\ error'[j] = error[j]
            /\ page'[j] = page[j]
            /\ jobDir'[j] = jobDir[j]]_vars

\* The first job has completed although the second one was cancelled in
\* the list behind it; with one slot, the drain came while the first job
\* was in flight.
C11_Witness ==
  /\ maxConcurrent = 1
  /\ Len(jobs) >= 2
  /\ Status(1) = "completed"
  /\ Status(2) = "cancelled"

\* A call of job j's render threw while a frame was being captured: the
\* time of the frame was set and the frame was not stored.
CaptureFailed(j) == error[j] # NULL /\ Len(times[j]) > jobs[j].currentFrame

\* C12 as claimed: when the capture of a frame fails, no later frame is
\* begun, and the job ends failed with the error and with its page closed.
C12_FrameFailureAborts ==
  \A j \in Ids :
    CaptureFailed(j) =>
      /\ Len(times[j]) = jobs[j].currentFrame + 1
      /\ pc[j] \in {"rm", "done"}
      /\ pc[j] = "done" =>
           /\ Status(j) = "failed"
           /\ jobs[j].error = error[j]
           /\ page[j] = "closed"

\* A step in which job j becomes failed.
Fails(j) == Status(j) # "failed" /\ jobs'[j].status = "failed"

\* Job k is handed off in this step.
Dispatched(k) ==
  /\ queue # <<>>
  /\ k = Head(queue)
  /\ jobs'[k] = [jobs[k] EXCEPT !.status = "processing", !.startedAt = Date]
  /\ pc'[k] = "mkdir"

\* C13: when a job fails, the active count goes down by one, the head of
\* the admission list, if any, is handed off in the same step, and no other
\* job's record or render call is changed.
C13_FailureIsolated ==
  [][\A j \in Ids :
       Fails(j) =>
         /\ IF queue = <<>>
            THEN activeJobs' = activeJobs - 1 /\ queue' = queue
            ELSE activeJobs' = activeJobs /\ queue' = Tail(queue)
                 /\ Dispatched(Head(queue))
         /\ \A k \in Ids \ {j} :
              \/ Dispatched(k)
              \/ jobs'[k] = jobs[k] /\ pc'[k] = pc[k]
         /\ \A k \in Ids \ {j} :
              /\ frame'[k] = frame[k] /\ times'[k] = times[k]
              /\ error'[k] = error[k] /\ page'[k] = page[k]
              /\ jobDir'[k] = jobDir[k]]_vars

\* With one slot, the first job failed in packaging and the second one,
\* which had waited, completed after it.
C13_Witness ==
  /\ maxConcurrent = 1
  /\ Len(jobs) = 2
  /\ Status(1) = "failed" /\ jobs[1].error = "archiver error"
  /\ Status(2) = "completed"
  /\ activeJobs = 0

\* No frame and no part of an artifact of job j is on disk.
Removed(j) == jobDir[j].frames = 0 /\ jobDir[j].output = "none"

C15_LocatorIffCompleted ==
  \A j \in Ids :
    /\ jobs[j].downloadUrl # NULL <=> Status(j) = "completed"
    /\ jobs[j].fileSize # NULL <=> Status(j) = "completed"

\* One job has completed with both fields, another failed at the stat of
\* its artifact with neither.
C15_Witness ==
  /\ \E j \in WithStatus("completed") :
       jobs[j].downloadUrl = "/download" /\ jobs[j].fileSize = "MB"
  /\ \E j \in WithStatus("failed") :
       /\ jobs[j].error = "fs error"
       /\ jobs[j].currentFrame >= 1
       /\ jobs[j].downloadUrl = NULL /\ jobs[j].fileSize = NULL

\* C16 as claimed, for the jobs of one frame or more: progress is
\* round(currentFrame / totalFrames * 100) in every state.
C16_ProgressFormula ==
  \A j \in Ids :
    jobs[j].totalFrames # R(0) =>
      jobs[j].progress = Progress(jobs[j].currentFrame, jobs[j].totalFrames)

\* C16: progress is round(currentFrame / totalFrames * 100) as long as the
\* job is not completed, and 0 for a job of no frames; a completed job has
\* progress 100 whatever its currentFrame is.
C16_ProgressUntilCompleted ==
  \A j \in Ids :
    jobs[j].progress =
      IF Status(j) = "completed" THEN R(100)
      ELSE IF jobs[j].totalFrames = R(0) THEN R(0)
      ELSE Progress(jobs[j].currentFrame, jobs[j].totalFrames)

\* A perfect loop has completed one frame short of totalFrames with
\* progress 100, which is not what the formula gives.
C16_Witness ==
  \E j \in WithStatus("completed") :
    /\ jobs[j].data.perfectLoop
    /\ R(jobs[j].currentFrame) = RSub(jobs[j].totalFrames, R(1))
    /\ jobs[j].currentFrame >= 1
    /\ jobs[j].progress = R(100)
    /\ Progress(jobs[j].currentFrame, jobs[j].totalFrames) # R(100)

\* C17 as claimed: progress is an integer in 0..100 and currentFrame is in
\* 0..totalFrames.
C17_Ranges ==
  \A j \in Ids :
    /\ jobs[j].progress[2] = 1
    /\ jobs[j].progress[1] \in 0..100
    /\ jobs[j].currentFrame >= 0
    /\ RLeq(R(jobs[j].currentFrame), jobs[j].totalFrames)

\* The engines that are connected and that this.browser does not reference.
Orphans == {e \in DOMAIN engines : engines[e] /\ e # browser}

\* C20 as claimed: the number of engine launches is at most one plus the
\* number of times a started engine was found dead, and every engine that
\* was launched and is alive is the one the renderer references.
C20_LaunchedOnce ==
  /\ Len(engines) <= 1 + foundDead
  /\ Orphans = {}

\* Job j is in the store with one of these statuses.
Is(j, statuses) == j \in Ids /\ jobs[j].status \in statuses

\* C18 as claimed: a processing job does not hold its slot forever, whether
\* its render returns or not: it leaves processing, at the latest when its
\* budget is spent (or the process exits).
C18_BudgetFreesSlot ==
  \A j \in 1..2 :
    [](Is(j, {"processing"}) => <>(~Is(j, {"processing"}) \/ exited))

\* C19: when every call of render returns or throws, a processing job
\* becomes completed or failed in the end (as long as the process does not
\* exit), and a queued job becomes processing or cancelled.
C19_EveryJobEnds ==
  \A j \in 1..2 :
    /\ [](Is(j, {"processing"}) => <>(Is(j, {"completed", "failed"}) \/ exited))
    /\ [](Is(j, {"queued"}) => <>Is(j, {"processing", "cancelled"}))

\* With one slot, the second job has waited for the first one and has then
\* ended itself.
C19_Witness ==
  /\ maxConcurrent = 1
  /\ startLog = <<1, 2>>
  /\ Is(1, {"completed", "failed"})
  /\ Is(2, {"completed"})
  /\ ~exited

\* The errors of the checks of POST /render.
ValidationErrors ==
  {"HTML content is required", "Too many frames requested",
   "Resolution too high", "Invalid export format"}

\* A step that sends a new response of this route.
Responds(route) == response' # response /\ response'.route = route

\* C21: a submission that fails the content, frame-limit, resolution or
\* export-format check creates no job record and leaves the job store, the
\* admission list and the active count unchanged.
C21_RejectionAllocatesNothing ==
  [][(Responds("render") /\ response'.status = 400) =>
       /\ response'.error \in ValidationErrors
       /\ response'.error = validationError(response'.request)
       /\ jobs' = jobs
       /\ queue' = queue
       /\ activeJobs' = activeJobs]_vars

\* A request for an unknown format was refused while one job was processing
\* and the store held that job only.
C21_Witness ==
  /\ response.route = "render"
  /\ response.status = 400
  /\ response.error = "Invalid export format"
  /\ Len(jobs) = 1
  /\ Status(1) = "processing"

\* C22 as claimed: no job of the store has more than maxFramesPerJob frames
\* as its totalFrames, and no more than that many frames are captured or
\* written for it.
C22_FrameLimit ==
  \A j \in Ids :
    /\ RLeq(jobs[j].totalFrames, R(maxFramesPerJob))
    /\ jobs[j].currentFrame <= maxFramesPerJob
    /\ jobDir[j].frames <= maxFramesPerJob

\* C23: a download request for an unknown id is answered 404, one for a job
\* that is not completed is refused with 400, one for a completed job whose
\* artifact is gone is answered 404, and only one for a completed job whose
\* artifact is on disk is answered 200; no download request changes a job
\* record.
C23_DownloadOnlyCompleted ==
  [][\A id \in 1..(limit + 1) :
       (Responds("download") /\ response'.request = id) =>
         /\ jobs' = jobs
         /\ response'.status =
              IF id \notin Ids THEN 404
              ELSE IF Status(id) # "completed" THEN 400
              ELSE IF jobDir[id].output # "complete" THEN 404
              ELSE 200]_vars

\* The download of a completed video whose directory the cleanup job had
\* removed was answered 404, and the record is still completed.
C23_Witness ==
  /\ response.route = "download"
  /\ response.status = 404
  /\ response.request \in Ids
  /\ Status(response.request) = "completed"
  /\ jobs[response.request].data.exportFormat = "mov"
  /\ ~jobDir[response.request].exists

\* C24: the status response of a completed job carries the locator and the
\* size, both set; the one of a queued job has progress 0 and currentFrame
\* 0; the one of a job that is not completed carries neither the locator
\* nor the size.
C24_StatusFields ==
  [][\A id \in Ids :
       (Responds("status") /\ response'.request = id) =>
         /\ response'.status = 200
         /\ response'.jobStatus = Status(id)
         /\ Status(id) = "completed" =>
              /\ {"downloadUrl", "fileSize"} \subseteq DOMAIN response'
              /\ response'.downloadUrl # NULL
              /\ response'.fileSize # NULL
         /\ Status(id) = "queued" =>
              response'.progress = R(0) /\ response'.currentFrame = 0
         /\ Status(id) # "completed" =>
              {"downloadUrl", "fileSize"} \cap DOMAIN response' = {}]_vars

\* The status of a completed job was returned with its locator and size
\* while the other job was still being captured.
C24_Witness ==
  /\ response.route = "status"
  /\ response.status = 200
  /\ response.jobStatus = "completed"
  /\ response.downloadUrl = "/download"
  /\ response.fileSize = "MB"
  /\ \E j \in WithStatus("processing") : jobs[j].currentFrame = 1

\* C25 as claimed: a failed job has an error that tells whether the job
\* failed while a frame was being captured, a cancelled job has the
\* shutdown error, and a queued, processing or completed job has no error.
C25_ErrorsTagged ==
  /\ \A j \in WithStatus("failed") : jobs[j].error # NULL
  /\ \A i, j \in WithStatus("failed") :
       jobs[i].error = jobs[j].error =>
         (CaptureFailed(i) <=> CaptureFailed(j))
  /\ \A j \in WithStatus("cancelled") :
       jobs[j].error = "Server shutting down"
  /\ \A j \in Ids :
       Status(j) \in {"queued", "processing", "completed"} =>
         jobs[j].error = NULL

\* A step in which job j becomes completed.
Completes(j) == Status(j) # "completed" /\ jobs'[j].status = "completed"

OpenPages == {j \in Ids : page[j] = "open"}

\* C27 as claimed: every open page belongs to a processing job, so there
\* are at most as many open pages as processing jobs, and at most
\* maxConcurrent.
C27_NoSessionLeak ==
  /\ OpenPages \subseteq WithStatus("processing")
  /\ Cardinality(OpenPages) <= maxConcurrent

\* C28 as claimed: a request for the archive format is never refused for
\* its format, and no job ends failed because FFmpeg is missing.
C28_FormatAdmission ==
  /\ (response.route = "render" /\ response.status = 400
        /\ response.error = "Invalid export format") =>
       response.request.exportFormat # "zip"
  /\ \A j \in WithStatus("failed") : jobs[j].error # FFmpegRequired

hookCalls(animationCode, ts, n, convert(_)) ==
  IF animationCode = "loop"
  THEN [k \in 1..n |-> <<"tick", convert(ts[k])>>]
  ELSE IF animationCode = "once"
  THEN [k \in 1..Min(n, 1) |-> <<"bad", convert(ts[k])>>]
  ELSE IF animationCode = "update"
  THEN [k \in 1..n |-> <<"updateAnimation", ts[k]>>]
  ELSE <<>>

\* The protocol of the time hook, each callback getting convert(time): the
\* animation code is evaluated once, before the first time-set call; every
\* time-set call has called, once, the callbacks registered before it and
\* none registered during it; and when a frame is captured every time-set
\* call so far has done so (the last one may be missing only while it has
\* not returned, or when the job has failed).
HookProtocol(convert(_)) ==
  \A j \in Ids :
    LET code == jobs[j].data.animationCode
        w == window[j]
        sent == Len(times[j])
    IN /\ w.evals <= 1
       /\ w.evals = 1 => code # ""
       /\ sent > 0 => w.evals = (IF code = "" THEN 0 ELSE 1)
       /\ \/ w.calls = hookCalls(code, times[j], sent, convert)
          \/ /\ pc[j] = "setTime" \/ error[j] # NULL
             /\ sent > 0
             /\ w.calls = hookCalls(code, times[j], sent - 1, convert)
       /\ (code = "loop" /\ w.evals = 1) => w.rafCallbacks = <<"tick">>

Same(time) == time

Partials ==
  { [currentFrame |-> n] : n \in 0..3 }
  \cup { [status |-> "processing", startedAt |-> Date],
         [status |-> "completed", completedAt |-> Date, progress |-> R(100),
          downloadUrl |-> "/download"],
         [status |-> "failed", error |-> "fs error", completedAt |-> Date],
         [status |-> "cancelled", error |-> "Server shutting down"],
         [fileSize |-> "MB", exportFormat |-> "zip"] }

\* The ids a request may carry that the store does not hold.
UnknownIds == (0..(limit + 1)) \ Ids

\* C31: updateJob with an id that is not in the store leaves every record
\* as it is and creates none (the admission list and the active count are
\* out of its reach), and a status or download request for such an id is
\* answered 404 "Job not found" and changes nothing in the job queue.
C31_UnknownIdNoOp ==
  /\ [](\A id \in UnknownIds : \A updates \in Partials :
          /\ DOMAIN updateJob(jobs, id, updates) = Ids
          /\ updateJob(jobs, id, updates) = jobs)
  /\ [][\A id \in UnknownIds :
          ((Responds("status") \/ Responds("download"))
             /\ response'.request = id) =>
            /\ response'.status = 404
            /\ response'.error = "Job not found"
            /\ jobs' = jobs
            /\ queue' = queue
            /\ activeJobs' = activeJobs]_vars

\* The status of an id the store does not hold was asked for and answered
\* 404 while the store held a processing and a queued job.
C31_Witness ==
  /\ response.route = "status"
  /\ response.status = 404
  /\ response.request \notin Ids
  /\ WithStatus("processing") # {}
  /\ WithStatus("queued") # {}

\* A step of job j's render call, or of the processQueue call that waits
\* for it.
Owns(j) == pc'[j] # pc[j]

\* C32: while a job is processing, its currentFrame is written only by a
\* step of its own render call, at the end of a frame capture, and its
\* status only by the end of the processQueue call that waits for that
\* render call, which makes it completed or failed; a step of job j's
\* render call changes no other job's record and neither totalFrames nor
\* data of job j; the step that ends job j changes another job only by
\* handing it off from the admission list.
C32_SingleWriter ==
  [][\A j \in Ids :
       Status(j) = "processing" =>
         /\ jobs'[j].currentFrame # jobs[j].currentFrame =>
              Owns(j) /\ pc[j] = "screenshot"
         /\ jobs'[j].status # jobs[j].status =>
              /\ Owns(j) /\ pc'[j] = "done"
              /\ jobs'[j].status \in {"completed", "failed"}
         /\ Owns(j) =>
              /\ jobs'[j].totalFrames = jobs[j].totalFrames
              /\ jobs'[j].data = jobs[j].data
              /\ \A k \in Ids \ {j} :
                   \/ jobs'[k] = jobs[k]
                   \/ pc'[j] = "done" /\ Dispatched(k)]_vars

\* Two jobs are being captured at once, and the one that was created later
\* is a frame ahead.
C32_Witness ==
  /\ Len(jobs) = 2
  /\ Status(1) = "processing" /\ Status(2) = "processing"
  /\ jobs[1].currentFrame = 1
  /\ jobs[2].currentFrame = 2
  /\ pc[1] = "screenshot"

\* ceil(effectivePeriod * fps), less one for a perfect loop.
captureFrameCount(data) ==
  routeTotalFrames(data) - (IF data.perfectLoop THEN 1 ELSE 0)

\* The archive of job j holds the images of the frames 0 .. n-1 under their
\* zero-padded numbers, which are in the order of the frames, and one
\* metadata record with the frame count n.
ArchiveOf(j, n) ==
  LET archive == jobDir[j].archive
  IN /\ archive.images = {<<"frame_", padStart(String(i), 4, 0), "png">> :
                            i \in 0..(n - 1)}
     /\ Cardinality(archive.images) = n
     /\ Len(archive.metadata) = 1
     /\ archive.metadata[1].frameCount = n

\* The completed jobs whose artifact is an archive.
Archived ==
  {j \in WithStatus("completed") : jobs[j].data.exportFormat = "zip"}

\* C33 as claimed: the archive of a completed job holds exactly
\* captureFrameCount images, one for each frame index below it, named by
\* the zero-padded index, and one metadata record whose frame count is
\* captureFrameCount.
C33_ArchiveContents ==
  \A j \in Archived : ArchiveOf(j, captureFrameCount(jobs[j].data))

\* The same of the number of frames the capture loop has stored.
ArchiveHoldsCaptured ==
  \A j \in Archived : ArchiveOf(j, jobs[j].currentFrame)

\* The fields of a snapshot that count the jobs of one status.
StatusNames == {"queued", "processing", "completed", "failed", "cancelled"}

RECURSIVE Sum(_, _)
Sum(f, S) ==
  IF S = {} THEN 0
  ELSE LET x == CHOOSE x \in S : TRUE IN f[x] + Sum(f, S \ {x})

\* C34 as claimed: a call of getStats changes no record, queue or counter,
\* and its snapshot has a count for each of the five statuses, which sum to
\* the total number of records.
C34_StatsPerStatus ==
  /\ [][Responds("stats") =>
          /\ jobs' = jobs /\ queue' = queue /\ activeJobs' = activeJobs
          /\ response'.stats.total = Len(jobs)]_vars
  /\ [](response.route = "stats" =>
          /\ StatusNames \subseteq DOMAIN response.stats
          /\ Sum(response.stats, StatusNames \cap DOMAIN response.stats)
               = response.stats.total)

\* What the snapshot does hold: a call of getStats changes nothing, the
\* counts of queued, processing, completed and failed jobs are those of the
\* store, and they fall short of the total by the number of cancelled jobs.
StatsOfStore ==
  [][Responds("stats") =>
       /\ jobs' = jobs /\ queue' = queue /\ activeJobs' = activeJobs
       /\ pc' = pc
       /\ response'.stats.total = Len(jobs)
       /\ \A s \in StatusNames \ {"cancelled"} :
            response'.stats[s] = Cardinality(WithStatus(s))
       /\ Sum(response'.stats, StatusNames \ {"cancelled"})
            = Len(jobs) - Cardinality(WithStatus("cancelled"))]_vars

\* C35: whenever no handler is running, the admission list holds exactly
\* the ids of the queued jobs, each once and in the order of their
\* creation; no processing, completed, failed or cancelled job is in it.
C35_QueueIsQueued ==
  /\ Range(queue) = WithStatus("queued")
  /\ \A a, b \in DOMAIN queue : a < b => queue[a] < queue[b]

\* The first job has ended, the second one has its slot, and the third one
\* is the only entry of the list; a later drain cancels it.
C35_Witness ==
  /\ queue = <<3>>
  /\ Status(1) \in {"completed", "failed"}
  /\ Status(2) = "processing"
  /\ Status(3) = "queued"

\* C36: whenever no handler is running, the active counter is the number
\* of processing jobs and is not negative, and every snapshot of getStats
\* reports activeJobs equal to processing and queueLength equal to queued.
C36_CounterIsProcessing ==
  /\ activeJobs = Cardinality(WithStatus("processing"))
  /\ activeJobs >= 0
  /\ response.route = "stats" =>
       /\ response.stats.activeJobs = response.stats.processing
       /\ response.stats.queueLength = response.stats.queued
       /\ response.stats.activeJobs >= 0

\* With one slot, a snapshot was taken after the first job had failed and
\* the second one had taken its slot.
C36_Witness ==
  /\ response.route = "stats"
  /\ response.stats.failed = 1
  /\ response.stats.processing = 1
  /\ response.stats.activeJobs = 1
  /\ maxConcurrent = 1
  /\ startLog = <<1, 2>>

\* The number of frames the capture loop of a job is to capture: the
\* number of indices 0, 1, ... below the local totalFrames of render.
toCapture(job) ==
  IF RLeq(captureFrames(job), R(0)) THEN 0 ELSE Ceil(captureFrames(job))

\* C37: a completed job has progress 100, startedAt and completedAt set,
\* and currentFrame equal to the number of frames its capture loop was to
\* capture; a queued or cancelled job has neither startedAt nor
\* completedAt and has currentFrame 0.
C37_TerminalFields ==
  /\ \A j \in WithStatus("completed") :
       /\ jobs[j].progress = R(100)
       /\ jobs[j].startedAt # NULL
       /\ jobs[j].completedAt # NULL
       /\ jobs[j].currentFrame = toCapture(jobs[j])
  /\ \A j \in WithStatus("queued") \cup WithStatus("cancelled") :
       /\ jobs[j].startedAt = NULL
       /\ jobs[j].completedAt = NULL
       /\ jobs[j].currentFrame = 0

\* A perfect loop has completed with its two frames, and the job that
\* waited behind it was cancelled.
C37_Witness ==
  /\ Len(jobs) = 2
  /\ Status(1) = "completed"
  /\ jobs[1].data.perfectLoop
  /\ jobs[1].currentFrame = 2
  /\ Status(2) = "cancelled"

\* C38: the status in the response of an accepted submission, which is the
\* status of the job createJob returns, is processing if and only if the
\* active count was below maxConcurrent and the admission list was empty
\* when createJob was called, and is queued otherwise.
C38_SynchronousDispatch ==
  [][Len(jobs') = Len(jobs) + 1 =>
       /\ response'.route = "render"
       /\ response'.status = 200
       /\ response'.jobId = Len(jobs')
       /\ response'.jobStatus = jobs'[Len(jobs')].status
       /\ response'.jobStatus =
            IF activeJobs < maxConcurrent /\ queue = <<>>
            THEN "processing" ELSE "queued"]_vars

\* With two slots, the first two submissions were answered processing and
\* the third one queued.
C38_Witness ==
  /\ maxConcurrent = 2
  /\ startLog = <<1, 2>>
  /\ Status(1) = "processing" /\ Status(2) = "processing"
  /\ response.route = "render"
  /\ response.status = 200
  /\ response.jobId = 3
  /\ response.jobStatus = "queued"

\* The jobs a drain has cancelled.
Cancelled == WithStatus("cancelled")

\* Job k was created after every job that was cancelled.
Later(k) == \A c \in Cancelled : k > c

\* C39: after a drain the queue goes on as before: a job that is created
\* is handed off at once if a slot is free and waits in the admission list
\* otherwise, never more than maxConcurrent jobs are active, the step that
\* ends a job in flight hands its slot to the head of the list, which is a
\* job created after the drain, and a cancelled job is never handed off.
C39_DrainNotPermanent ==
  /\ [](Cancelled # {} =>
          /\ activeJobs <= maxConcurrent
          /\ \A k \in Range(queue) : Later(k) /\ Status(k) = "queued"
          /\ \A c \in Cancelled : pc[c] = "idle" /\ c \notin Range(startLog))
  /\ [][Cancelled # {} =>
          /\ Len(jobs') = Len(jobs) + 1 =>
               IF activeJobs < maxConcurrent
               THEN /\ jobs'[Len(jobs')].status = "processing"
                    /\ activeJobs' = activeJobs + 1
                    /\ queue' = queue
               ELSE /\ jobs'[Len(jobs')].status = "queued"
                    /\ activeJobs' = activeJobs
                    /\ queue' = Append(queue, Len(jobs'))
          /\ \A j \in Ids :
               (pc[j] # "done" /\ pc'[j] = "done") =>
                 IF queue = <<>>
                 THEN activeJobs' = activeJobs - 1
                 ELSE /\ activeJobs' = activeJobs
                      /\ Later(Head(queue))
                      /\ Dispatched(Head(queue))
                      /\ queue' = Tail(queue)
          /\ \A c \in Cancelled : jobs'[c] = jobs[c] /\ pc'[c] = pc[c]]_vars

\* With one slot: the second job was cancelled by a drain while the first
\* one was in flight, the third one was created after the drain and waited,
\* and when the first one ended the third one got its slot.
C39_Witness ==
  /\ maxConcurrent = 1
  /\ Len(jobs) = 3
  /\ Status(1) \in {"completed", "failed"}
  /\ Status(2) = "cancelled"
  /\ Status(3) = "processing"
  /\ startLog = <<1, 3>>

====
